---- MODULE Spec2Model ----
(***************************************************************************)
(* Model of the ADANiD Genesis Core identity controller                    *)
(* (functions/controllers/identityController.js) and the configuration it  *)
(* reads (functions/config/settings.js).                                   *)
(*                                                                         *)
(* The ledger is the Firestore collection 'adanid_users', one document per *)
(* superID.  Every HTTP request is a process: the handler runs from its    *)
(* first line to its first await in one step, and resumes in a second step *)
(* when the store has answered.                                            *)
(***************************************************************************)
EXTENDS Integers, Sequences, FiniteSets, TLC

----------------------------------------------------------------------------
(* Bounds *)

\* number of HTTP requests that may be in flight or answered in one run
MaxRequests == 2

----------------------------------------------------------------------------
(* Configuration: functions/config/settings.js *)

BIOMETRIC_LAYERS_REQUIRED == 5
MIN_AUTH_LAYERS == 3
RISK_SCORE_HIGH_THRESHOLD == 6
RISK_SCORE_MEDIUM_THRESHOLD == 3
CNIC_SHARDS_TOTAL == 5
CNIC_SHARDS_REQUIRED == 3

----------------------------------------------------------------------------
(* Request bodies *)

\* the five biometric fields read from req.body, in the order of line 8
Channels ==
  <<"fingerprintHash", "irisHash", "facialHash", "voiceHash", "behavioralPattern">>

ChannelNames == {Channels[i] : i \in 1..Len(Channels)}

\* a field of req.body that is missing (undefined) or empty is 0
Undefined == 0

\* the digest values a populated channel may carry
Digests == {1}

\* how many of the five channels a request populates
LayerCounts == {2, 3, 5}

\* the bundle that populates the first n channels with digest d
BundleOf(n, d) ==
  [c \in ChannelNames |->
     IF \E i \in 1..n : Channels[i] = c THEN d ELSE Undefined]

Bundles == {BundleOf(n, d) : n \in LayerCounts, d \in Digests}

\* a shard string: the index-th share of a national-identity secret
Share(s, i) == [secret |-> s, index |-> i]

\* the value of cnicShards[0] when the list is empty
NoShard == Share(0, 0)

Secrets == {1}

\* the shards a..b of secret s, in index order
ShardRun(s, a, b) == [i \in 1..(b - a + 1) |-> Share(s, a + i - 1)]

\* the shard lists a request may carry: two, three or all five shards, and
\* three that start with another shard
ShardLists ==
  UNION {{ShardRun(s, 1, 2), ShardRun(s, 1, 3),
          ShardRun(s, 1, 5), ShardRun(s, 2, 4)} : s \in Secrets}

\* req.body: the five biometric fields and cnicShards (possibly missing)
Bodies ==
  [bio : Bundles, hasShards : {TRUE}, cnicShards : ShardLists]
    \cup [bio : Bundles, hasShards : {FALSE}, cnicShards : {<<>>}]

NoBody == [bio |-> BundleOf(0, 0), hasShards |-> FALSE, cnicShards |-> <<>>]

----------------------------------------------------------------------------
(* utils/security/hashUtils: generateSuperIDHash *)

\* the channels of a bundle that are present and non-empty
Populated(bio) == {c \in ChannelNames : bio[c] # Undefined}

\* generateSuperIDHash throws InsufficientLayers on such a bundle
InsufficientLayers(bio) == Cardinality(Populated(bio)) < MIN_AUTH_LAYERS

\* the digest of the canonical bundle and the salt; a collision-free hash is
\* the pair it was computed from
generateSuperIDHash(bio, salt) == [bio |-> bio, salt |-> salt]

NoHash == [bio |-> BundleOf(0, 0), salt |-> NoShard]

----------------------------------------------------------------------------
(* State *)

VARIABLES
  ledger,   \* the collection adanid_users: the set of its documents
  clock,    \* the store's server time
  reqs,     \* the HTTP requests, by request number
  fz,       \* one person's biometric fields as two requests present them
  codec,    \* the shard codec: a secret, its shares and what they reconstruct
  component,    \* one long-running component: its life cycle and its intervals
  quantumKeys,  \* QuantumSecurityLayer.quantumKeys: a Map, in insertion order
  rotation,     \* the position of rotateQuantumKeys in its loop
  generated,    \* how many times generateQuantumSafeKeyPairs has run
  compliance,   \* IslamicComplianceFramework: its metrics and its last answer
  security,     \* QuantumSecurityLayer: its metrics and its last answer
  explorer      \* UniversalExplorerAPI: its indexes, metrics and last answer

\* the state of the long-running component and of its key store
layer == <<component, quantumKeys, rotation, generated>>

\* the state of the validators and of the explorer
services == <<compliance, security, explorer>>

\* the state outside the controller and its ledger
others == <<fz, codec, layer, services>>

vars == <<ledger, clock, reqs, others>>

Requests == 1..MaxRequests

\* the values of UserSchema.status
Statuses == {"ACTIVE", "FROZEN", "PENDING_VERIFICATION"}

\* FieldValue.serverTimestamp(): a placeholder the store replaces on commit
ServerTimestamp == 0

NoRecord ==
  [superID |-> NoHash, biometricHashes |-> BundleOf(0, 0), cnicShards |-> <<>>,
   status |-> "", createdAt |-> ServerTimestamp]

NoResponse == [code |-> 0, status |-> "", message |-> ""]

Idle ==
  [op |-> "none", pc |-> "idle", body |-> NoBody, superID |-> NoHash,
   record |-> NoRecord, res |-> NoResponse]

\* db.collection('adanid_users').doc(id) exists
Exists(docs, id) == \E d \in docs : d.superID = id

\* the document stored under id
Doc(docs, id) == CHOOSE d \in docs : d.superID = id

\* a write that leaves data as the only document of the collection
DocSetAlone(docs, id, data) == {data}

\* DocumentReference.set(data) without merge: creates the document or
\* replaces the whole document stored under id
DocSet(docs, id, data) == {d \in docs : d.superID # id} \cup {data}

\* no biometric fields presented
NoFusion ==
  [pc |-> "none", presented |-> <<>>, salt |-> NoShard,
   first |-> NoHash, superID |-> NoHash]

\* the controller's ledger and requests before the first request
InitController ==
  /\ ledger = {}
  /\ clock = 0
  /\ reqs = [r \in Requests |-> Idle]

\* the shard codec before a secret is split
NoSplit ==
  [pc |-> "none", secret |-> 0, n |-> 0, k |-> 0, shares |-> <<>>,
   presented |-> {}, out |-> [tag |-> "", secret |-> 0]]

\* no component initialized yet
NoComponent ==
  [name |-> "none", isInitialized |-> FALSE, shutdown |-> FALSE,
   intervals |-> {}, fired |-> 0, last |-> ""]

\* rotateQuantumKeys is not running
NoRotation == [pc |-> "idle", cursor |-> 0]

\* a component as its constructor leaves it
InitLayer ==
  /\ component = NoComponent
  /\ quantumKeys = <<>>
  /\ rotation = NoRotation
  /\ generated = 0

\* no validation answered yet
NoResult == [kind |-> "none"]

\* the framework as its constructor leaves it
InitCompliance ==
  compliance =
    [complianceMetrics |->
       [totalValidations |-> 0, halalCertifications |-> 0, ulemaApprovals |-> 0],
     calls |-> 0, returned |-> 0, last |-> NoResult]

\* the security layer's metrics and threat database as its constructor
\* leaves them
InitSecurity ==
  security =
    [securityMetrics |->
       [totalThreatsDetected |-> 0, quantumAttacksBlocked |-> 0,
        biometricVerifications |-> 0, zeroKnowledgeProofs |-> 0],
     threatDatabase |-> {}, calls |-> 0, last |-> NoResult]

\* the explorer's indexes and metrics as its constructor leaves them
InitExplorer ==
  explorer =
    [transactionIndex |-> <<>>, networkIndex |-> <<>>,
     explorerMetrics |-> [networksIndexed |-> 0, transactionsIndexed |-> 0],
     calls |-> 0, failures |-> 0, last |-> NoResult]

Init ==
  /\ InitController
  /\ fz = NoFusion
  /\ codec = NoSplit
  /\ InitLayer
  /\ InitCompliance
  /\ InitSecurity
  /\ InitExplorer

----------------------------------------------------------------------------
(* Handlers *)

\* res.status(code).json({status, message})
Respond(r, code, status, message) ==
  [reqs[r] EXCEPT !.pc = "done",
                  !.res = [code |-> code, status |-> status, message |-> message]]

\* newUserRecord, lines 17-23
NewUserRecord(superIDHash, biometricData, cnicShards) ==
  [superID |-> superIDHash, biometricHashes |-> biometricData,
   cnicShards |-> cnicShards, status |-> "ACTIVE", createdAt |-> ServerTimestamp]

\* a salt taken from the end of the list instead of its head
LastShard(cnicShards) ==
  IF Len(cnicShards) = 0 THEN NoShard ELSE cnicShards[Len(cnicShards)]

\* cnicShards[0]: undefined when the list is empty
First(cnicShards) == IF Len(cnicShards) = 0 THEN NoShard ELSE cnicShards[1]

\* the validator of UserSchema.cnicShards, lines 77-80
cnicShardsValidate(val) == Len(val) = CNIC_SHARDS_TOTAL

\* SyncError of a controller that runs the schema's validator on cnicShards
\* before it writes
SyncErrorValidated(body) ==
  IF ~body.hasShards THEN "TypeError"
  ELSE IF InsufficientLayers(body.bio) THEN "InsufficientLayers"
  ELSE IF ~cnicShardsValidate(body.cnicShards)
       THEN "CNIC shards must be exactly 5."
  ELSE ""

\* the message of the error thrown between line 8 and line 14, "" when the
\* handler reaches the write: line 11 reads cnicShards[0] of a missing
\* cnicShards, line 14 lets the error of generateSuperIDHash through
SyncError(body) ==
  IF ~body.hasShards THEN "TypeError"
  ELSE IF InsufficientLayers(body.bio) THEN "InsufficientLayers"
  ELSE ""

\* a catch block that answers with a fixed message instead of error.message
CatchResponseGeneric(r, message) ==
  Respond(r, 500, "Error", "Internal Server Error")

\* the catch block, lines 33-36: status 500 with the message of the error
CatchResponse(r, message) == Respond(r, 500, "Error", message)

\* registerIdentity from its first line to the await of line 25
registerIdentity(r, body) ==
  /\ reqs[r].pc = "idle"
  /\ IF SyncError(body) # ""
     THEN reqs' = [reqs EXCEPT ![r] =
                     [CatchResponse(r, SyncError(body)) EXCEPT
                        !.op = "register", !.body = body]]
     ELSE LET uniqueSalt == First(body.cnicShards)
              superIDHash == generateSuperIDHash(body.bio, uniqueSalt)
          IN  reqs' = [reqs EXCEPT ![r] =
                         [reqs[r] EXCEPT
                            !.op = "register",
                            !.body = body,
                            !.pc = "awaitSet",
                            !.superID = superIDHash,
                            !.record = NewUserRecord(superIDHash, body.bio,
                                                     body.cnicShards)]]
  /\ UNCHANGED <<ledger, clock, others>>

\* the store commits the write of line 25 and the handler answers 201
setResolved(r) ==
  /\ reqs[r].pc = "awaitSet"
  /\ clock' = clock + 1
  /\ ledger' = DocSet(ledger, reqs[r].superID,
                      [reqs[r].record EXCEPT !.createdAt = clock + 1])
  /\ reqs' = [reqs EXCEPT ![r] =
                Respond(r, 201, "Success", "ADANiD Super ID successfully registered.")]
  /\ UNCHANGED others

\* a rejected write that nevertheless left the unstamped record in the store
setRejectedAfterWrite(r) ==
  /\ reqs[r].pc = "awaitSet"
  /\ ledger' = DocSet(ledger, reqs[r].superID, reqs[r].record)
  /\ reqs' = [reqs EXCEPT ![r] = CatchResponse(r, "UNAVAILABLE")]
  /\ UNCHANGED <<clock, others>>

\* the write of line 25 is rejected by the store: caught at line 33
setRejected(r) ==
  /\ reqs[r].pc = "awaitSet"
  /\ reqs' = [reqs EXCEPT ![r] = CatchResponse(r, "UNAVAILABLE")]
  /\ UNCHANGED <<ledger, clock, others>>

\* the bodies sent to the endpoints that are still placeholders
StubBodies ==
  {b \in Bodies : /\ Cardinality(Populated(b.bio)) = BIOMETRIC_LAYERS_REQUIRED
                  /\ b.hasShards
                  /\ Len(b.cnicShards) = CNIC_SHARDS_REQUIRED}

\* the risk scores the signal batches of status requests amount to
RiskScores == {2, 3, 5, 6, 7}

\* the bodies of status requests: an identity and the session's signals
StatusBodies ==
  {[bio |-> b.bio, hasShards |-> b.hasShards, cnicShards |-> b.cnicShards,
    riskScore |-> score] : b \in StubBodies, score \in RiskScores}

\* a placeholder handler: answers 501 and touches nothing
Placeholder(r, op, body, message) ==
  /\ reqs[r].pc = "idle"
  /\ reqs' = [reqs EXCEPT ![r] =
                [Respond(r, 501, "Pending", message) EXCEPT
                   !.op = op, !.body = body]]
  /\ UNCHANGED <<ledger, clock, others>>

verifyIdentity(r, body) ==
  Placeholder(r, "verify", body, "Verification logic under construction.")

\* a status check that freezes the identity of a session it finds at high
\* risk
checkStatusFreezing(r, body) ==
  /\ reqs[r].pc = "idle"
  /\ reqs' = [reqs EXCEPT ![r] =
                [Respond(r, 200, "Success", "HIGH") EXCEPT
                   !.op = "status", !.body = body]]
  /\ ledger' =
       {IF d.superID = generateSuperIDHash(body.bio, First(body.cnicShards))
           /\ body.riskScore >= RISK_SCORE_HIGH_THRESHOLD
        THEN [d EXCEPT !.status = "FROZEN"] ELSE d : d \in ledger}
  /\ UNCHANGED <<clock, others>>

checkStatus(r, body) ==
  Placeholder(r, "status", body, "CAP Status Check logic under construction.")

lockSession(r, body) ==
  Placeholder(r, "lock", body, "Atomic Lock logic under construction.")

----------------------------------------------------------------------------
(* Ledger operations that are not part of the controller *)

\* the status state machine: PENDING_VERIFICATION -> ACTIVE -> FROZEN
ValidTransition(old, new) ==
  \/ old = "PENDING_VERIFICATION" /\ new = "ACTIVE"
  \/ old = "ACTIVE" /\ new = "FROZEN"

\* transitionStatus(fingerprint, newStatus); an invalid transition is
\* answered InvalidTransition and changes nothing
transitionStatus(id, newStatus) ==
  /\ Exists(ledger, id)
  /\ ValidTransition(Doc(ledger, id).status, newStatus)
  /\ ledger' = DocSet(ledger, id, [Doc(ledger, id) EXCEPT !.status = newStatus])
  /\ UNCHANGED <<clock, reqs, others>>

----------------------------------------------------------------------------
(* Specification *)

Next ==
  \/ \E r \in Requests, body \in Bodies : registerIdentity(r, body)
  \/ \E r \in Requests : setResolved(r)
  \/ \E r \in Requests : setRejected(r)
  \/ \E r \in Requests, body \in StubBodies : verifyIdentity(r, body)
  \/ \E r \in Requests, body \in StatusBodies : checkStatus(r, body)
  \/ \E r \in Requests, body \in StubBodies : lockSession(r, body)
  \/ \E d \in ledger, s \in Statuses : transitionStatus(d.superID, s)

Spec == Init /\ [][Next]_vars

----------------------------------------------------------------------------
(* Vocabulary of the properties *)

\* request r is a registration that has been answered
Answered(r) == reqs[r].op = "register" /\ reqs[r].pc = "done"

\* request r is a registration the store did not refuse
StoreAnswered(r) == Answered(r) /\ reqs[r].res.message # "UNAVAILABLE"

\* request r was answered with success
Succeeded(r) == Answered(r) /\ reqs[r].res.code = 201

\* request r was answered with the error tag
Tagged(r, tag) == reqs[r].pc = "done" /\ reqs[r].res.code # 201
                  /\ reqs[r].res.message = tag

\* request r is answered in this step
Answers(r) == reqs[r].pc # "done" /\ reqs'[r].pc = "done"

\* the record of request r is what the ledger holds under its fingerprint
Holds(docs, r) ==
  \E d \in docs : [d EXCEPT !.createdAt = ServerTimestamp] = reqs[r].record

\* the shares of secret s among the shards of a list
SharesOf(s, list) ==
  {i \in 1..CNIC_SHARDS_TOTAL : \E j \in 1..Len(list) : list[j] = Share(s, i)}

\* a reader of the list can reconstruct a secret from it
Reconstructible(list) ==
  \E s \in Secrets : Cardinality(SharesOf(s, list)) >= CNIC_SHARDS_REQUIRED

\* the body carries fewer than threshold-many distinct valid shards
FewShards(body) == ~Reconstructible(body.cnicShards)

----------------------------------------------------------------------------
(* Registration and uniqueness *)

\* C1: of the answered registrations that produced one fingerprint with
\* distinct records, exactly one succeeded, every other one was answered
\* AlreadyRegistered, and the ledger holds the record of the one that succeeded
C1_ExactlyOneRegistrationSucceeds ==
  \A group \in SUBSET Requests :
    ( /\ Cardinality(group) >= 2
      /\ \A r \in group : StoreAnswered(r) /\ reqs[r].superID # NoHash
      /\ \A r, q \in group :
           /\ reqs[r].superID = reqs[q].superID
           /\ r # q => reqs[r].record # reqs[q].record )
    => /\ Cardinality({r \in group : Succeeded(r)}) = 1
       /\ \A r \in group : Succeeded(r) \/ Tagged(r, "AlreadyRegistered")
       /\ \A r \in group : Succeeded(r) => Holds(ledger, r)

\* C2: a registration whose fingerprint already maps to a record is answered
\* AlreadyRegistered and leaves that record exactly as it was
C2_RegistrationNeverOverwrites ==
  [][\A r \in Requests, d \in ledger :
       ( /\ reqs[r].op = "register"
         /\ reqs[r].superID = d.superID
         /\ Answers(r)
         /\ reqs'[r].res.message # "UNAVAILABLE" )
       => d \in ledger' /\ reqs'[r].res.message = "AlreadyRegistered"]_vars

\* C3: a FROZEN record is FROZEN in every later state, and a registration
\* for its fingerprint is answered AlreadyRegistered
C3_FrozenIsTerminal ==
  [][\A d \in ledger : d.status = "FROZEN" =>
       /\ \E e \in ledger' : e.superID = d.superID /\ e.status = "FROZEN"
       /\ \A r \in Requests :
            ( /\ reqs[r].op = "register"
              /\ reqs[r].superID = d.superID
              /\ Answers(r)
              /\ reqs'[r].res.message # "UNAVAILABLE" )
            => reqs'[r].res.message = "AlreadyRegistered"]_vars

\* C4: no ledger record lets its reader reconstruct the secret: it holds
\* fewer than threshold-many shard payloads
C4_RecordCannotReconstruct ==
  \A d \in ledger : ~Reconstructible(d.cnicShards)

\* C5: a registration whose cnicShards list holds fewer than threshold-many
\* distinct valid shards (with a bundle that has the layers fusion needs) is
\* answered InsufficientShares and no step of it changes the ledger
C5_FewShardsRejected ==
  [][\A r \in Requests :
       ( /\ reqs'[r] # reqs[r]
         /\ reqs'[r].op = "register"
         /\ reqs'[r].body.hasShards
         /\ ~InsufficientLayers(reqs'[r].body.bio)
         /\ FewShards(reqs'[r].body) )
       => /\ ledger' = ledger
          /\ reqs'[r].pc = "done" => reqs'[r].res.message = "InsufficientShares"]_vars

\* the scenario of C6: five biometric channels and exactly three valid shards
ThreeOfFive(body) ==
  /\ Cardinality(Populated(body.bio)) = BIOMETRIC_LAYERS_REQUIRED
  /\ body.hasShards
  /\ Len(body.cnicShards) = CNIC_SHARDS_REQUIRED
  /\ Reconstructible(body.cnicShards)

Complete(d) ==
  /\ d.status \in Statuses
  /\ d.createdAt > ServerTimestamp
  /\ d.superID = generateSuperIDHash(d.biometricHashes, First(d.cnicShards))
  /\ \E r \in Requests :
       /\ Succeeded(r)
       /\ reqs[r].record =
            [d EXCEPT !.createdAt = ServerTimestamp, !.status = "ACTIVE"]

\* C8: every step of a registration other than its successful answer leaves
\* the ledger as it was, and the ledger only ever holds whole records of
\* registrations that succeeded
C8_FailureLeavesNoTrace ==
  /\ [][\A r \in Requests :
          ( /\ reqs'[r] # reqs[r]
            /\ reqs'[r].op = "register"
            /\ ~(reqs'[r].pc = "done" /\ reqs'[r].res.code = 201) )
          => ledger' = ledger]_vars
  /\ [](\A d \in ledger : Complete(d))

C8_Witness ==
  \E r \in Requests :
    /\ Answered(r)
    /\ reqs[r].res.code = 500
    /\ reqs[r].superID # NoHash
    /\ ~Exists(ledger, reqs[r].superID)

----------------------------------------------------------------------------
(* The per-fingerprint lock *)

\* the fingerprint a lock request is about
LockTarget(r) ==
  generateSuperIDHash(reqs[r].body.bio, First(reqs[r].body.cnicShards))

LockAnswered(r) == reqs[r].op = "lock" /\ reqs[r].pc = "done"

\* request r was given the lock
LockGranted(r) == LockAnswered(r) /\ reqs[r].res.code = 200

\* C9: of the lock requests answered for one fingerprint exactly one holds
\* the lock and every other one was answered AlreadyLocked, and a
\* registration for a fingerprint another request holds is answered
\* AlreadyLocked
C9_LockIsExclusive ==
  /\ [](\A r \in Requests : LockAnswered(r) =>
          LET same == {q \in Requests :
                         LockAnswered(q) /\ LockTarget(q) = LockTarget(r)}
          IN  /\ Cardinality({q \in same : LockGranted(q)}) = 1
              /\ \A q \in same : LockGranted(q) \/ Tagged(q, "AlreadyLocked"))
  /\ [][\A r, q \in Requests :
          ( /\ LockGranted(q)
            /\ reqs[r].op = "register"
            /\ reqs[r].superID = LockTarget(q)
            /\ Answers(r) )
          => reqs'[r].res.message = "AlreadyLocked"]_vars

\* C10: a lock request for a fingerprint whose lock no other request holds
\* (never taken, released or expired) is given the lock
C10_FreeLockIsGranted ==
  \A r \in Requests :
    ( /\ LockAnswered(r)
      /\ \A q \in Requests \ {r} :
           ~(LockGranted(q) /\ LockTarget(q) = LockTarget(r)) )
    => LockGranted(r)

----------------------------------------------------------------------------
(* Verification *)

\* the fingerprint the body of a request fuses to
Target(body) == generateSuperIDHash(body.bio, First(body.cnicShards))

\* the risk tiers
Tiers == {"LOW", "MEDIUM", "HIGH"}

\* C11: a verification is answered UnknownIdentity when its fingerprint has
\* no ledger record, IdentityFrozen when the record is FROZEN, and otherwise
\* with a risk tier; it has no other outcome
C11_VerificationOutcomes ==
  [][\A r \in Requests :
       (reqs'[r].op = "verify" /\ Answers(r)) =>
         LET f == Target(reqs'[r].body)
             res == reqs'[r].res
         IN  IF ~Exists(ledger, f)
             THEN res.code # 200 /\ res.message = "UnknownIdentity"
             ELSE IF Doc(ledger, f).status = "FROZEN"
             THEN res.code # 200 /\ res.message = "IdentityFrozen"
             ELSE res.code = 200 /\ res.message \in Tiers]_vars

----------------------------------------------------------------------------
(* The fusion salt *)

\* request r got as far as fusing a fingerprint
Fused(r) == reqs[r].op = "register" /\ reqs[r].superID # NoHash

----------------------------------------------------------------------------
(* The order in which a request presents its biometric fields *)

\* the most biometric fields a presented body lists
MaxFuseLayers == 4

\* the digests of the presented fields
FuseDigests == {1, 2}

\* the salts of the presented bodies
FuseSalts == {Share(1, 1), Share(1, 2)}

\* one field of req.body as the request lists it
Field(c, d) == [name |-> c, digest |-> d]

\* the bodies that list the first n channels, n >= MIN_AUTH_LAYERS, each
\* with some digest
Presentations ==
  UNION {{[i \in 1..n |-> Field(Channels[i], ds[i])] : ds \in [1..n -> FuseDigests]}
           : n \in MIN_AUTH_LAYERS..MaxFuseLayers}

\* the position of a channel in line 8
Position(c) == CHOOSE i \in 1..Len(Channels) : Channels[i] = c

\* biometricData filled by position in the body instead of by field name
DestructureByPosition(presented) ==
  [c \in ChannelNames |->
     IF Position(c) <= Len(presented) THEN presented[Position(c)].digest
     ELSE Undefined]

\* lines 8 and 13: each field of biometricData is the body's field of that
\* name, undefined when the body does not list it
Destructure(presented) ==
  [c \in ChannelNames |->
     IF \E i \in 1..Len(presented) : presented[i].name = c
     THEN presented[CHOOSE i \in 1..Len(presented) : presented[i].name = c].digest
     ELSE Undefined]

\* lines 8-14: the superIDHash of a presented body
SuperIDOf(presented, salt) ==
  IF InsufficientLayers(Destructure(presented)) THEN NoHash
  ELSE generateSuperIDHash(Destructure(presented), salt)

\* the list with its entries i and i+1 exchanged
Swap(seq, i) == [seq EXCEPT ![i] = seq[i + 1], ![i + 1] = seq[i]]

\* a first request presents the fields and a salt
Present(presented, salt) ==
  /\ fz.pc = "none"
  /\ fz' = [pc |-> "fused", presented |-> presented, salt |-> salt,
            first |-> SuperIDOf(presented, salt),
            superID |-> SuperIDOf(presented, salt)]
  /\ UNCHANGED <<ledger, clock, reqs, codec, layer, services>>

\* a later request presents the same fields with two of them exchanged
Represent(i) ==
  /\ fz.pc = "fused"
  /\ i \in 1..(Len(fz.presented) - 1)
  /\ fz' = [fz EXCEPT !.presented = Swap(fz.presented, i),
                      !.superID = SuperIDOf(Swap(fz.presented, i), fz.salt)]
  /\ UNCHANGED <<ledger, clock, reqs, codec, layer, services>>

NextFuse ==
  \/ \E presented \in Presentations, salt \in FuseSalts : Present(presented, salt)
  \/ \E i \in 1..MaxFuseLayers : Represent(i)

SpecFuse == Init /\ [][NextFuse]_vars

\* C13: a bundle with at least MIN_AUTH_LAYERS channels fuses to the same
\* fingerprint in whatever order its fields are presented
C13_OrderIndependent ==
  fz.pc = "fused" => fz.superID # NoHash /\ fz.superID = fz.first

C13_Witness ==
  /\ fz.pc = "fused"
  /\ fz.presented[1].name # Channels[1]
  /\ \E i, j \in 1..Len(fz.presented) : fz.presented[i].digest # fz.presented[j].digest
  /\ fz.superID = fz.first

----------------------------------------------------------------------------
(* Shard Codec: a polynomial threshold scheme over a prime field *)

\* the order of the field
FieldPrime == 7

\* the most shares a secret is split into
MaxShares == 4

\* the largest coefficient the split draws
MaxCoef == 2

\* a mod FieldPrime, for a >= -FieldPrime * FieldPrime
Mod(a) == (a + FieldPrime * FieldPrime) % FieldPrime

\* the inverse of a non-zero field element
Inverse(a) == CHOOSE b \in 1..(FieldPrime - 1) : Mod(a * b) = 1

\* x to the power e in the field
RECURSIVE Power(_, _)
Power(x, e) == IF e = 0 THEN 1 ELSE Mod(x * Power(x, e - 1))

\* the polynomial with constant term secret and coefficients coefs, at x
RECURSIVE Evaluate(_, _, _)
Evaluate(secret, coefs, x) ==
  IF Len(coefs) = 0 THEN Mod(secret)
  ELSE Mod(Evaluate(secret, SubSeq(coefs, 1, Len(coefs) - 1), x)
           + coefs[Len(coefs)] * Power(x, Len(coefs)))

\* split(secret, n, k): share i is the polynomial of degree k-1 at i
split(secret, n, k, coefs) ==
  [i \in 1..n |->
     [index |-> i, payload |-> Evaluate(secret, coefs, i),
      totalShares |-> n, threshold |-> k]]

\* the Lagrange basis polynomial of share j at 0, over the shares in set
RECURSIVE Basis(_, _)
Basis(j, set) ==
  IF set = {} THEN 1
  ELSE LET m == CHOOSE m \in set : TRUE
       IN  IF m = j THEN Basis(j, set \ {m})
           ELSE Mod(Basis(j, set \ {m}) * m * Inverse(Mod(m - j)))

\* the interpolating polynomial of the shares at 0
RECURSIVE Interpolate(_, _, _)
Interpolate(shares, todo, set) ==
  IF todo = {} THEN 0
  ELSE LET j == CHOOSE j \in todo : TRUE
       IN  Mod(Interpolate(shares, todo \ {j}, set)
               + shares[j].payload * Basis(j, set))

\* a reconstruction that adds the payloads up instead of interpolating
reconstructBySum(shares, presented) ==
  IF presented = {} \/ \E i \in presented :
       Cardinality(presented) < shares[i].threshold
  THEN [tag |-> "InsufficientShares", secret |-> 0]
  ELSE [tag |-> "Ok",
        secret |-> Interpolate(shares, presented, {})]

\* reconstruct(shares): InsufficientShares below the threshold, otherwise
\* the constant term of the polynomial through the shares presented
reconstruct(shares, presented) ==
  IF presented = {} \/ \E i \in presented :
       Cardinality(presented) < shares[i].threshold
  THEN [tag |-> "InsufficientShares", secret |-> 0]
  ELSE [tag |-> "Ok",
        secret |-> Interpolate(shares, presented, presented)]

\* the secret is split into n shares with threshold k
Split(secret, n, k, coefs) ==
  /\ codec.pc = "none"
  /\ 1 < k /\ k <= n
  /\ codec' = [NoSplit EXCEPT !.pc = "split", !.secret = secret, !.n = n,
                              !.k = k, !.shares = split(secret, n, k, coefs)]
  /\ UNCHANGED <<ledger, clock, reqs, fz, layer, services>>

\* a set of the shares is presented for reconstruction
Reconstruct(presented) ==
  /\ codec.pc = "split"
  /\ presented \subseteq 1..codec.n
  /\ codec' = [codec EXCEPT !.pc = "reconstructed",
                            !.presented = presented,
                            !.out = reconstruct(codec.shares, presented)]
  /\ UNCHANGED <<ledger, clock, reqs, fz, layer, services>>

NextCodec ==
  \/ \E secret \in 0..(FieldPrime - 1), n \in 2..MaxShares, k \in 2..MaxShares :
       \E coefs \in [1..(k - 1) -> 0..MaxCoef] : Split(secret, n, k, coefs)
  \/ \E presented \in SUBSET (1..MaxShares) : Reconstruct(presented)

SpecCodec == Init /\ [][NextCodec]_vars

\* C14: any k distinct shares of split(secret, n, k) reconstruct to exactly
\* the secret
C14_RoundTrip ==
  (codec.pc = "reconstructed" /\ Cardinality(codec.presented) = codec.k)
  => codec.out = [tag |-> "Ok", secret |-> codec.secret]

C14_Witness ==
  /\ codec.pc = "reconstructed"
  /\ codec.k = 3 /\ codec.n = 4
  /\ Cardinality(codec.presented) = codec.k
  /\ codec.secret # 0
  /\ \E i \in codec.presented : codec.shares[i].payload # codec.secret
  /\ codec.out = [tag |-> "Ok", secret |-> codec.secret]

----------------------------------------------------------------------------
(* Registrations for different fingerprints *)

\* C15: the step that answers a registration for one fingerprint leaves every
\* document of another fingerprint as it was; a registration that fused a
\* fingerprint never waits for another request, and it succeeds unless the
\* store refuses its write, whatever other registrations do
C15_OtherFingerprintsUntouched ==
  /\ [][\A r \in Requests :
          (reqs'[r].op = "register" /\ reqs'[r] # reqs[r]) =>
            \A d \in ledger :
              d.superID # reqs'[r].superID => d \in ledger']_vars
  /\ [](\A r \in Requests :
          /\ reqs[r].pc = "awaitSet" => ENABLED setResolved(r)
          /\ (StoreAnswered(r) /\ Fused(r)) => Succeeded(r))

C15_Witness ==
  \E r, q \in Requests :
    /\ Succeeded(r) /\ Succeeded(q)
    /\ reqs[r].superID # reqs[q].superID
    /\ Holds(ledger, r) /\ Holds(ledger, q)

----------------------------------------------------------------------------
(* Continuous authentication *)

\* the tier of a risk score under the configured thresholds
TierOf(score) ==
  IF score >= RISK_SCORE_HIGH_THRESHOLD THEN "HIGH"
  ELSE IF score >= RISK_SCORE_MEDIUM_THRESHOLD THEN "MEDIUM"
  ELSE "LOW"

StatusAnswered(r) == reqs[r].op = "status" /\ reqs[r].pc = "done"

\* C16: a status check reports the tier of the session's risk score: HIGH
\* from RISK_SCORE_HIGH_THRESHOLD, MEDIUM from RISK_SCORE_MEDIUM_THRESHOLD,
\* LOW below
C16_TierByThreshold ==
  \A r \in Requests :
    StatusAnswered(r) =>
      /\ reqs[r].res.code = 200
      /\ reqs[r].res.message = TierOf(reqs[r].body.riskScore)

----------------------------------------------------------------------------
(* Errors *)

\* the error tags of the taxonomy
ErrorTags ==
  {"InsufficientLayers", "InsufficientShares", "CorruptShare",
   "AlreadyRegistered", "AlreadyLocked", "LedgerUnavailable", "LockTimeout",
   "InvalidTransition", "UnknownIdentity", "IdentityFrozen"}

\* C18: every answered request either succeeded or carries exactly one of
\* the error tags
C18_EveryFailureTagged ==
  \A r \in Requests :
    reqs[r].pc = "done" =>
      \/ reqs[r].res.code \in {200, 201}
      \/ reqs[r].res.message \in ErrorTags

----------------------------------------------------------------------------
(* Long-running components: periodic tasks and quantum keys *)

\* the most callbacks a component's intervals run
MaxFires == 2

\* the most security profiles created
MaxProfiles == 2

\* the most runs of generateQuantumSafeKeyPairs
MaxKeyGen == 3

\* the three classes that start intervals when they initialize
Components == {"explorer", "security", "compliance"}

\* the callbacks a component hands to setInterval in its initialize()
Intervals(name) ==
  CASE name = "explorer" -> {"cleanupExpiredCache", "updateMetrics"}
    [] name = "security" ->
         {"monitorThreats", "updateSecurityMetrics", "rotateQuantumKeys"}
    [] name = "compliance" -> {"monitorCompliance", "generateComplianceReport"}

\* the key 'master' of quantumKeys
Master == 0

\* the ids generateSecurityProfileId hands out
ProfileIds == 1..MaxProfiles

\* postQuantumCrypto.generateKeyPair(algorithm), as the n-th key generated
KeyPair(algorithm, n) ==
  [algorithm |-> algorithm, publicKey |-> n, privateKey |-> 0 - n]

\* generateSymmetricKey(), as the n-th key generated
generateSymmetricKey(n) ==
  [id |-> n, algorithm |-> "AES-256-GCM", key |-> 0 - n]

\* the object generateMasterQuantumKeys stores under 'master'
MasterKeys ==
  [systemKey |-> KeyPair("kyber", 1), backupKey |-> KeyPair("kyber", 2),
   emergencyKey |-> KeyPair("dilithium", 3)]

\* the object keyPairs that the g-th run of generateQuantumSafeKeyPairs
\* builds and stores
KeyPairs(g) ==
  [keyExchange |-> KeyPair("kyber", 4 * g),
   digitalSignature |-> KeyPair("dilithium", 4 * g + 1),
   encryption |-> generateSymmetricKey(4 * g + 2),
   backup |-> KeyPair("kyber", 4 * g + 3)]

\* the object generateQuantumSafeKeyPairs returns
PublicSummary(keyPairs) ==
  [keyExchangePublic |-> keyPairs.keyExchange.publicKey,
   digitalSignaturePublic |-> keyPairs.digitalSignature.publicKey,
   encryptionKeyId |-> keyPairs.encryption.id,
   backupPublic |-> keyPairs.backup.publicKey,
   algorithms |-> "quantumAlgorithms"]

\* Map.has(id)
MapHas(map, id) == \E i \in 1..Len(map) : map[i].id = id

\* Map.get(id)
MapGet(map, id) == map[CHOOSE i \in 1..Len(map) : map[i].id = id].keys

\* Map.set(id, keys): a key already present keeps its place in the order
MapSet(map, id, keys) ==
  IF MapHas(map, id)
  THEN [i \in 1..Len(map) |->
          IF map[i].id = id THEN [id |-> id, keys |-> keys] ELSE map[i]]
  ELSE Append(map, [id |-> id, keys |-> keys])

\* the keys of the Map
MapKeys(map) == {map[i].id : i \in 1..Len(map)}

\* generateQuantumSafeKeyPairs(profileId), as its g-th run: the Map with the
\* key pairs stored, and the summary returned
generateQuantumSafeKeyPairs(map, profileId, g) ==
  [map |-> MapSet(map, profileId, KeyPairs(g)),
   returned |-> PublicSummary(KeyPairs(g))]

\* initialize(): the component registers its intervals, and the security
\* layer then stores its master keys
initialize(name) ==
  /\ component.name = "none"
  /\ component' = [NoComponent EXCEPT !.name = name,
                                      !.intervals = Intervals(name),
                                      !.isInitialized = TRUE]
  /\ quantumKeys' = IF name = "security"
                    THEN MapSet(quantumKeys, Master, MasterKeys)
                    ELSE quantumKeys
  /\ UNCHANGED <<rotation, generated>>
  /\ UNCHANGED <<ledger, clock, reqs, fz, codec, services>>

\* createSecurityProfile(networkConfig), for the profile id it generates
createSecurityProfile(profileId) ==
  /\ component.name = "security"
  /\ component.isInitialized
  /\ ~MapHas(quantumKeys, profileId)
  /\ generated < MaxKeyGen
  /\ generated' = generated + 1
  /\ quantumKeys' =
       generateQuantumSafeKeyPairs(quantumKeys, profileId, generated + 1).map
  /\ UNCHANGED <<component, rotation>>
  /\ UNCHANGED <<ledger, clock, reqs, fz, codec, services>>

\* a registered interval elapses and the event loop runs its callback; the
\* rotation callback starts rotateQuantumKeys at the head of the Map
IntervalElapses(task) ==
  /\ task \in component.intervals
  /\ component.fired < MaxFires
  /\ component' = [component EXCEPT !.fired = @ + 1, !.last = task]
  /\ IF task = "rotateQuantumKeys"
     THEN /\ rotation.pc # "running"
          /\ rotation' = [pc |-> "running", cursor |-> 1]
     ELSE UNCHANGED rotation
  /\ UNCHANGED <<quantumKeys, generated>>
  /\ UNCHANGED <<ledger, clock, reqs, fz, codec, services>>

\* one turn of the loop of rotateQuantumKeys: past the last entry the
\* rotation completes, 'master' is skipped, and any other entry is set to
\* what generateQuantumSafeKeyPairs returns
rotateQuantumKeys ==
  /\ rotation.pc = "running"
  /\ IF rotation.cursor > Len(quantumKeys)
     THEN /\ rotation' = [pc |-> "completed", cursor |-> 0]
          /\ UNCHANGED <<quantumKeys, generated>>
     ELSE LET profileId == quantumKeys[rotation.cursor].id
              newKeys ==
                generateQuantumSafeKeyPairs(quantumKeys, profileId,
                                            generated + 1)
          IN  /\ rotation' = [rotation EXCEPT !.cursor = @ + 1]
              /\ IF profileId # Master
                 THEN /\ generated < MaxKeyGen
                      /\ generated' = generated + 1
                      /\ quantumKeys' =
                           MapSet(newKeys.map, profileId, newKeys.returned)
                 ELSE UNCHANGED <<quantumKeys, generated>>
  /\ UNCHANGED component
  /\ UNCHANGED <<ledger, clock, reqs, fz, codec, services>>

\* shutdown(): the parts are shut down, the security layer clears its keys,
\* and no interval is cleared
shutdown ==
  /\ component.name # "none"
  /\ ~component.shutdown
  /\ component' = [component EXCEPT !.shutdown = TRUE]
  /\ quantumKeys' = IF component.name = "security" THEN <<>> ELSE quantumKeys
  /\ UNCHANGED <<rotation, generated>>
  /\ UNCHANGED <<ledger, clock, reqs, fz, codec, services>>

NextLayer ==
  \/ \E name \in Components : initialize(name)
  \/ \E profileId \in ProfileIds : createSecurityProfile(profileId)
  \/ \E name \in Components : \E task \in Intervals(name) : IntervalElapses(task)
  \/ rotateQuantumKeys
  \/ shutdown

SpecLayer == Init /\ [][NextLayer]_vars

\* C19: once a component's shutdown has completed, none of its periodic
\* tasks runs again
C19_NoTaskAfterShutdown ==
  [][component.shutdown => component'.fired = component.fired]_vars

\* the entry holds the four key pairs that generateQuantumSafeKeyPairs stores
FullKeyMaterial(keys) ==
  DOMAIN keys = {"keyExchange", "digitalSignature", "encryption", "backup"}

\* C20: a turn of rotateQuantumKeys leaves the 'master' entry and the set of
\* profile ids as they were, and once the rotation has completed every
\* profile other than 'master' holds the four key pairs
C20_RotationKeepsKeyMaterial ==
  /\ [][rotation.pc = "running" /\ ~component.shutdown /\ ~component'.shutdown
          => /\ MapKeys(quantumKeys) \subseteq MapKeys(quantumKeys')
             /\ MapGet(quantumKeys', Master) = MapGet(quantumKeys, Master)]_vars
  /\ [](rotation.pc = "completed" =>
          \A i \in 1..Len(quantumKeys) :
            quantumKeys[i].id # Master => FullKeyMaterial(quantumKeys[i].keys))

----------------------------------------------------------------------------
(* IslamicComplianceFramework: validateNetwork and validateTransaction *)

\* the most validation calls made
MaxValidations == 3

\* certification: null
Null == "null"

\* the object a certificate generator returns
Certificate == "certificate"

\* the keywords detectMaysir looks for in the configuration
maysirIndicators ==
  {"lottery", "gambling", "betting", "casino", "random_rewards",
   "speculation", "chance_based", "luck_dependent"}

\* the network configurations presented: the length of terms, whether
\* outcomes are stated, transparency.enabled, speculative, the words the
\* configuration contains, how many of the five privacy requirements it
\* meets, and its expectedVolume
NetworkConfigs ==
  [terms : {99}, expectedOutcomes : {TRUE}, transparency : BOOLEAN,
   speculative : {FALSE}, words : {{}, {"lottery"}}, privacy : {3, 4, 5},
   expectedVolume : {1000000, 1000001}]

\* what the components outside the class answer for a network: the riba
\* analysis, the business-model check, the ulema review, and whether one of
\* them throws
NetworkOutcomes ==
  [ribaFree : BOOLEAN, halal : BOOLEAN, approved : BOOLEAN, throws : BOOLEAN]

\* detectMaysir(networkConfig).detected
detectMaysir(networkConfig) == networkConfig.words \cap maysirIndicators # {}

\* detectGharar(networkConfig).score
uncertaintyScore(networkConfig) ==
  (IF networkConfig.terms < 100 THEN 20 ELSE 0)
  + (IF ~networkConfig.expectedOutcomes THEN 15 ELSE 0)
  + (IF ~networkConfig.transparency THEN 25 ELSE 0)
  + (IF networkConfig.speculative THEN 30 ELSE 0)

\* detectGharar(networkConfig).excessive
detectGharar(networkConfig) == uncertaintyScore(networkConfig) > 40

\* validateDataPrivacy(networkConfig).compliant: the share of the five
\* requirements met, in percent, is at least 80
validateDataPrivacy(networkConfig) == (networkConfig.privacy * 100) \div 5 >= 80

\* a violation as calculateComplianceScore reads it
Violation(type, severity) == [type |-> type, severity |-> severity]

\* the violations list after the checks of validateNetwork, in their order
NetworkViolations(networkConfig, outcomes) ==
  (IF ~outcomes.ribaFree THEN <<Violation("riba", "critical")>> ELSE <<>>)
  \o (IF ~outcomes.halal THEN <<Violation("haram_activity", "critical")>>
      ELSE <<>>)
  \o (IF detectMaysir(networkConfig) THEN <<Violation("maysir", "critical")>>
      ELSE <<>>)
  \o (IF detectGharar(networkConfig) THEN <<Violation("gharar", "high")>>
      ELSE <<>>)
  \o (IF ~validateDataPrivacy(networkConfig)
      THEN <<Violation("privacy", "medium")>> ELSE <<>>)

\* compliant after the checks: the privacy check does not clear it
NetworkCompliant(networkConfig, outcomes) ==
  /\ outcomes.ribaFree
  /\ outcomes.halal
  /\ ~detectMaysir(networkConfig)
  /\ ~detectGharar(networkConfig)

\* the deduction of one violation
Penalty(severity) ==
  CASE severity = "critical" -> 30
    [] severity = "high" -> 20
    [] severity = "medium" -> 10
    [] severity = "low" -> 5
    [] OTHER -> 0

RECURSIVE Deducted(_, _)
\* the score after the deductions of the listed violations
Deducted(score, violations) ==
  IF violations = <<>> THEN score
  ELSE Deducted(score - Penalty(Head(violations).severity), Tail(violations))

\* Math.max(0, score)
Max0(score) == IF score < 0 THEN 0 ELSE score

\* calculateComplianceScore(validationResults)
calculateComplianceScore(violations) == Max0(Deducted(100, violations))

\* a review that approves whether or not a certificate was issued
UlemaApprovalUncertified(networkConfig, outcomes, certified) ==
  networkConfig.expectedVolume > 1000000 /\ outcomes.approved

\* ulemaApproval: the review is requested only inside the certification
\* branch, for a network of high volume
UlemaApproval(networkConfig, outcomes, certified) ==
  certified /\ networkConfig.expectedVolume > 1000000 /\ outcomes.approved

\* the validationResults that validateNetwork returns
NetworkResult(networkConfig, outcomes) ==
  LET violations == NetworkViolations(networkConfig, outcomes)
      compliant == NetworkCompliant(networkConfig, outcomes)
      complianceScore == calculateComplianceScore(violations)
      certified == compliant /\ complianceScore >= 80
  IN  [kind |-> "network", compliant |-> compliant, violations |-> violations,
       complianceScore |-> complianceScore,
       certification |-> IF certified THEN Certificate ELSE Null,
       ulemaApproval |-> UlemaApproval(networkConfig, outcomes, certified)]

\* the call was rejected with the error thrown
Thrown == [kind |-> "error"]

\* validateNetwork(networkConfig): a throwing component rejects the call
\* before anything is stored; otherwise the metrics count the result
validateNetwork(networkConfig, outcomes) ==
  /\ compliance.calls < MaxValidations
  /\ IF outcomes.throws
     THEN compliance' = [compliance EXCEPT !.calls = @ + 1, !.last = Thrown]
     ELSE LET validationResults == NetworkResult(networkConfig, outcomes)
              metrics == compliance.complianceMetrics
          IN  compliance' =
                [complianceMetrics |->
                   [totalValidations |-> metrics.totalValidations + 1,
                    halalCertifications |->
                      metrics.halalCertifications
                      + (IF validationResults.certification # Null
                         THEN 1 ELSE 0),
                    ulemaApprovals |->
                      metrics.ulemaApprovals
                      + (IF validationResults.ulemaApproval THEN 1 ELSE 0)],
                 calls |-> compliance.calls + 1,
                 returned |-> compliance.returned + 1,
                 last |-> validationResults]
  /\ UNCHANGED <<ledger, clock, reqs, fz, codec, layer>>
  /\ UNCHANGED <<security, explorer>>

\* what the analyses answer for a transaction: whether the instance has the
\* methods analyzeGharar, analyzeMaysir, validateActivity and
\* assessSocialBenefit at all (the class defines none of them), and their
\* answers when it has
TransactionOutcomes ==
  [extended : BOOLEAN, ribaFree : BOOLEAN, excessive : BOOLEAN,
   detected : BOOLEAN, halal : BOOLEAN, socialBenefitScore : {49, 50}]

\* the validationResult that validateTransaction returns
TransactionResult(outcomes) ==
  [kind |-> "transaction",
   halal |-> outcomes.ribaFree /\ ~outcomes.detected /\ outcomes.halal,
   score |-> 100 - (IF ~outcomes.ribaFree THEN 50 ELSE 0)
                 - (IF outcomes.excessive THEN 20 ELSE 0)
                 - (IF outcomes.detected THEN 50 ELSE 0)
                 - (IF ~outcomes.halal THEN 40 ELSE 0)
                 - (IF outcomes.socialBenefitScore < 50 THEN 10 ELSE 0),
   violations |->
     (IF ~outcomes.ribaFree THEN <<Violation("riba", "critical")>> ELSE <<>>)
     \o (IF outcomes.excessive THEN <<Violation("gharar", "medium")>>
         ELSE <<>>)
     \o (IF outcomes.detected THEN <<Violation("maysir", "critical")>>
         ELSE <<>>)
     \o (IF ~outcomes.halal THEN <<Violation("haram_activity", "critical")>>
         ELSE <<>>),
   certification |-> Null]

\* the call was rejected with TypeError: this.analyzeGharar is not a function
NotAFunction == [kind |-> "TypeError"]

\* validateTransaction(transactionData): without the four methods the call
\* is rejected with a TypeError at the gharar analysis; with them the result
\* carries a certification when halal and score >= 80
validateTransaction(outcomes) ==
  /\ compliance.calls < MaxValidations
  /\ IF ~outcomes.extended
     THEN compliance' = [compliance EXCEPT !.calls = @ + 1,
                                           !.last = NotAFunction]
     ELSE LET validationResult == TransactionResult(outcomes)
          IN  compliance' =
                [compliance EXCEPT
                   !.calls = @ + 1,
                   !.last =
                     [validationResult EXCEPT
                        !.certification =
                          IF validationResult.halal
                             /\ validationResult.score >= 80
                          THEN Certificate ELSE Null]]
  /\ UNCHANGED <<ledger, clock, reqs, fz, codec, layer>>
  /\ UNCHANGED <<security, explorer>>

NextCompliance ==
  \/ \E networkConfig \in NetworkConfigs, outcomes \in NetworkOutcomes :
       validateNetwork(networkConfig, outcomes)
  \/ \E outcomes \in TransactionOutcomes : validateTransaction(outcomes)

SpecCompliance == Init /\ [][NextCompliance]_vars

\* C21: a network's result carries a certification only if it is compliant,
\* scores at least 80 and lists no violation
C21_CertifiedMeansNoViolation ==
  (compliance.last.kind = "network" /\ compliance.last.certification # Null)
    => /\ compliance.last.compliant
       /\ compliance.last.complianceScore >= 80
       /\ compliance.last.violations = <<>>

----------------------------------------------------------------------------
(* QuantumSecurityLayer: validateTransaction and assessSecurityRequirements *)

\* the most calls made to the security layer
MaxSecurityCalls == 2

\* the id of the transaction validated
TransactionId == 1

\* transactionData.biometricData and transactionData.zkProof, when present
Presence == {"absent", "good", "bad"}

\* what the checks answer for a transaction: the algorithms are valid, a
\* quantum attack is detected, the AI scan detects threats, the biometric
\* data and the proof verify, the layers pass
SecurityOutcomes ==
  [valid : BOOLEAN, attack : BOOLEAN, threatsDetected : BOOLEAN,
   biometricData : Presence, zkProof : Presence, layersPassed : BOOLEAN]

\* validateQuantumSafety(transactionData).safe
validateQuantumSafety(outcomes) == outcomes.valid /\ ~outcomes.attack

\* the threats list after the five checks, in their order
Threats(outcomes) ==
  (IF ~validateQuantumSafety(outcomes) THEN <<"quantum_vulnerability">>
   ELSE <<>>)
  \o (IF outcomes.threatsDetected THEN <<"ai_threat">> ELSE <<>>)
  \o (IF outcomes.biometricData = "bad" THEN <<"biometric_failure">>
      ELSE <<>>)
  \o (IF outcomes.zkProof = "bad" THEN <<"zkp_invalid">> ELSE <<>>)
  \o (IF ~outcomes.layersPassed THEN <<"layer_violation">> ELSE <<>>)

\* the validationResult that validateTransaction returns
SecurityResult(outcomes) ==
  [kind |-> "transaction",
   passed |-> /\ validateQuantumSafety(outcomes)
              /\ ~outcomes.threatsDetected
              /\ outcomes.biometricData # "bad",
   score |-> Max0(100 - (IF ~validateQuantumSafety(outcomes) THEN 30 ELSE 0)
                      - (IF outcomes.threatsDetected THEN 25 ELSE 0)
                      - (IF outcomes.biometricData = "bad" THEN 20 ELSE 0)
                      - (IF outcomes.zkProof = "bad" THEN 15 ELSE 0)
                      - (IF ~outcomes.layersPassed THEN 10 ELSE 0)),
   threats |-> Threats(outcomes),
   securityChecks |->
     [quantumSafe |-> validateQuantumSafety(outcomes),
      aiThreatScan |-> ~outcomes.threatsDetected,
      biometricVerified |-> outcomes.biometricData = "good",
      zeroKnowledgeProof |-> outcomes.zkProof = "good",
      multiLayerSecurity |-> outcomes.layersPassed]]

\* validateTransaction(transactionData) of the security layer: the result,
\* the counters of the checks made, and the threat database
validateSecurity(outcomes) ==
  /\ security.calls < MaxSecurityCalls
  /\ LET validationResult == SecurityResult(outcomes)
         metrics == security.securityMetrics
     IN  security' =
           [securityMetrics |->
              [totalThreatsDetected |->
                 metrics.totalThreatsDetected + Len(validationResult.threats),
               quantumAttacksBlocked |->
                 metrics.quantumAttacksBlocked
                 + (IF outcomes.valid /\ outcomes.attack THEN 1 ELSE 0),
               biometricVerifications |->
                 metrics.biometricVerifications
                 + (IF outcomes.biometricData # "absent" THEN 1 ELSE 0),
               zeroKnowledgeProofs |->
                 metrics.zeroKnowledgeProofs
                 + (IF outcomes.zkProof # "absent" THEN 1 ELSE 0)],
            threatDatabase |->
              IF validationResult.threats # <<>>
              THEN security.threatDatabase \cup {TransactionId}
              ELSE security.threatDatabase,
            calls |-> security.calls + 1,
            last |-> validationResult]
  /\ UNCHANGED <<ledger, clock, reqs, fz, codec, layer, compliance, explorer>>

\* the network configurations assessed
SecurityConfigs ==
  [financialTransactions : BOOLEAN, governmentUse : BOOLEAN,
   expectedVolume : {1000000, 1000001}, islamicRequired : BOOLEAN]

\* securityLevel after the three assignments, the last one winning
securityLevel(networkConfig) ==
  IF networkConfig.expectedVolume > 1000000 THEN "enterprise"
  ELSE IF networkConfig.governmentUse THEN "maximum"
  ELSE IF networkConfig.financialTransactions THEN "high"
  ELSE "standard"

\* complianceLevel after its three assignments, the last one winning
complianceLevel(networkConfig) ==
  IF networkConfig.islamicRequired THEN "islamic-compliant"
  ELSE IF networkConfig.governmentUse THEN "government"
  ELSE IF networkConfig.financialTransactions THEN "financial"
  ELSE "basic"

\* the object assessSecurityRequirements returns
Requirements(networkConfig) ==
  [level |-> securityLevel(networkConfig),
   compliance |-> complianceLevel(networkConfig),
   quantumSafe |-> TRUE,
   biometricRequired |-> securityLevel(networkConfig) = "maximum",
   zkpRequired |-> securityLevel(networkConfig) \in {"high", "maximum"},
   multiFactorAuth |-> TRUE,
   continuousMonitoring |-> TRUE]

\* assessSecurityRequirements(networkConfig)
assessSecurityRequirements(networkConfig) ==
  /\ security.calls < MaxSecurityCalls
  /\ security' = [security EXCEPT !.calls = @ + 1,
                                  !.last =
                                    [kind |-> "requirements",
                                     networkConfig |-> networkConfig,
                                     returned |-> Requirements(networkConfig)]]
  /\ UNCHANGED <<ledger, clock, reqs, fz, codec, layer, compliance, explorer>>

NextSecurity ==
  \/ \E outcomes \in SecurityOutcomes : validateSecurity(outcomes)
  \/ \E networkConfig \in SecurityConfigs :
       assessSecurityRequirements(networkConfig)

SpecSecurity == Init /\ [][NextSecurity]_vars

\* C22: a transaction's result has passed = true only with an empty threats
\* list and the score 100
C22_PassedMeansNoThreat ==
  (security.last.kind = "transaction" /\ security.last.passed)
    => security.last.threats = <<>> /\ security.last.score = 100

\* C25: for a network of government use the requirements returned have the
\* level 'maximum' and require biometrics and zero-knowledge proofs
C25_GovernmentIsMaximum ==
  (security.last.kind = "requirements"
   /\ security.last.networkConfig.governmentUse)
    => /\ security.last.returned.level = "maximum"
       /\ security.last.returned.biometricRequired
       /\ security.last.returned.zkpRequired

----------------------------------------------------------------------------
(* UniversalExplorerAPI: indexing and search *)

\* the most indexing calls made
MaxIndexCalls == 3

\* strings are lists of characters
NetworkIds == {<<"n", "1">>, <<"N", "2">>}

TransactionIds == {<<"t", "1">>, <<"t", "2">>}

\* status: 'active'
Active == <<"a", "c", "t", "i", "v", "e">>

\* the search terms of the queries
SearchTerms ==
  {<<>>, <<"n">>, <<"n", "2">>, <<"T", "1">>, <<"x">>, Active}

\* one character of String.prototype.toLowerCase()
Lower(c) ==
  CASE c = "N" -> "n"
    [] c = "T" -> "t"
    [] OTHER -> c

\* value.toLowerCase()
toLowerCase(value) == [i \in 1..Len(value) |-> Lower(value[i])]

\* value.includes(searchTerm)
includes(value, searchTerm) ==
  \E i \in 0..(Len(value) - Len(searchTerm)) :
    SubSeq(value, i + 1, i + Len(searchTerm)) = searchTerm

\* Map.has(id), for an index
IndexHas(index, id) == \E i \in 1..Len(index) : index[i].id = id

\* Map.get(id), for an index
IndexGet(index, id) == index[CHOOSE i \in 1..Len(index) : index[i].id = id].data

\* Map.set(id, data), for an index: an id already present keeps its place
IndexSet(index, id, data) ==
  IF IndexHas(index, id)
  THEN [i \in 1..Len(index) |->
          IF index[i].id = id THEN [id |-> id, data |-> data] ELSE index[i]]
  ELSE Append(index, [id |-> id, data |-> data])

\* the entry indexNetwork stores
NetworkData(networkId) ==
  [networkId |-> networkId, status |-> Active, transactionCount |-> 0]

\* the entry indexTransaction stores: its searchable fields are listed in
\* the order id, network
IndexEntry(transactionId, networkId) ==
  [transactionId |-> transactionId, networkId |-> networkId,
   searchableFields |-> <<transactionId, networkId>>]

\* indexNetwork(networkId): the entry is stored before the monitor is asked,
\* and the metric counts only a call the monitor did not reject
indexNetwork(networkId, throws) ==
  /\ explorer.calls < MaxIndexCalls
  /\ explorer' =
       [explorer EXCEPT
          !.networkIndex = IndexSet(@, networkId, NetworkData(networkId)),
          !.explorerMetrics.networksIndexed = IF throws THEN @ ELSE @ + 1,
          !.calls = @ + 1,
          !.failures = IF throws THEN @ + 1 ELSE @,
          !.last = [kind |-> "indexNetwork", id |-> networkId,
                    success |-> ~throws]]
  /\ UNCHANGED <<ledger, clock, reqs, fz, codec, layer, compliance, security>>

\* the network index after the transaction count of networkId went up
Counted(index, networkId) ==
  IF IndexHas(index, networkId)
  THEN IndexSet(index, networkId,
                [IndexGet(index, networkId) EXCEPT !.transactionCount = @ + 1])
  ELSE index

\* indexTransaction(verificationResult): the entry and the count are stored
\* before the fraud analysis, and the metric counts only a call the
\* analysis did not reject
indexTransaction(transactionId, networkId, throws) ==
  /\ explorer.calls < MaxIndexCalls
  /\ explorer' =
       [explorer EXCEPT
          !.transactionIndex =
             IndexSet(@, transactionId, IndexEntry(transactionId, networkId)),
          !.networkIndex = Counted(@, networkId),
          !.explorerMetrics.transactionsIndexed = IF throws THEN @ ELSE @ + 1,
          !.calls = @ + 1,
          !.failures = IF throws THEN @ + 1 ELSE @,
          !.last = [kind |-> "indexTransaction", id |-> transactionId,
                    success |-> ~throws]]
  /\ UNCHANGED <<ledger, clock, reqs, fz, codec, layer, compliance, security>>

\* the field counts for the term: it is not empty and, in lower case,
\* includes the term
FieldMatches(value, searchTerm) ==
  value # <<>> /\ includes(toLowerCase(value), searchTerm)

\* matchesQuery(data, query), data being the values of the object's fields
matchesQuery(data, searchTerm) ==
  IF searchTerm = <<>> THEN TRUE
  ELSE \E i \in 1..Len(data) : FieldMatches(data[i], toLowerCase(searchTerm))

RECURSIVE Scored(_, _)
\* the score of the fields against a lower-case term: 10 for a field equal
\* to it, 1 for a field that includes it
Scored(data, searchTerm) ==
  IF data = <<>> THEN 0
  ELSE (IF FieldMatches(Head(data), searchTerm)
        THEN (IF toLowerCase(Head(data)) = searchTerm THEN 10 ELSE 1)
        ELSE 0)
       + Scored(Tail(data), searchTerm)

\* calculateRelevanceScore(data, query)
calculateRelevanceScore(data, searchTerm) ==
  IF searchTerm = <<>> THEN 1 ELSE Scored(data, toLowerCase(searchTerm))

RECURSIVE Inserted(_, _)
\* the sorted list with one more result, placed before the first result of
\* a score not above its own
Inserted(result, results) ==
  IF results = <<>> THEN <<result>>
  ELSE IF result.relevanceScore >= Head(results).relevanceScore
       THEN <<result>> \o results
       ELSE <<Head(results)>> \o Inserted(result, Tail(results))

RECURSIVE Sorted(_)
\* results.sort((a, b) => b.relevanceScore - a.relevanceScore)
Sorted(results) ==
  IF results = <<>> THEN <<>>
  ELSE Inserted(Head(results), Sorted(Tail(results)))

RECURSIVE Matching(_, _, _)
\* the results pushed for the entries of an index, in the order of the
\* index: matched holds the fields matchesQuery is given for an entry,
\* scored the fields calculateRelevanceScore is given
Matching(entries, type, searchTerm) ==
  IF entries = <<>> THEN <<>>
  ELSE (IF matchesQuery(Head(entries).matched, searchTerm)
        THEN <<[type |-> type, id |-> Head(entries).id,
                relevanceScore |->
                  calculateRelevanceScore(Head(entries).scored, searchTerm)]>>
        ELSE <<>>)
       \o Matching(Tail(entries), type, searchTerm)

\* the data types of a search
DataTypes == {"transaction", "address", "contract", "identity", "network"}

\* what each search function hands to matchesQuery and to
\* calculateRelevanceScore for the entries of its index; nothing writes to
\* the address, contract and identity indexes
Entries(type) ==
  CASE type = "transaction" ->
         [i \in 1..Len(explorer.transactionIndex) |->
            [id |-> explorer.transactionIndex[i].id,
             matched |-> explorer.transactionIndex[i].data.searchableFields,
             scored |-> explorer.transactionIndex[i].data.searchableFields]]
    [] type = "network" ->
         [i \in 1..Len(explorer.networkIndex) |->
            [id |-> explorer.networkIndex[i].id,
             matched |-> <<explorer.networkIndex[i].id,
                           explorer.networkIndex[i].data.status>>,
             scored |-> <<explorer.networkIndex[i].id>>]]
    [] OTHER -> <<>>

\* searchTransactions, searchAddresses, searchContracts, searchIdentities
\* and searchNetworks, by the type of their results
search(type, searchTerm) ==
  /\ explorer' =
       [explorer EXCEPT
          !.last = [kind |-> "search", searchTerm |-> searchTerm,
                    results |-> Sorted(Matching(Entries(type), type,
                                                searchTerm))]]
  /\ UNCHANGED <<ledger, clock, reqs, fz, codec, layer, compliance, security>>

NextExplorer ==
  \/ \E networkId \in NetworkIds, throws \in BOOLEAN :
       indexNetwork(networkId, throws)
  \/ \E transactionId \in TransactionIds, networkId \in NetworkIds,
        throws \in BOOLEAN :
       indexTransaction(transactionId, networkId, throws)
  \/ \E type \in DataTypes, searchTerm \in SearchTerms :
       search(type, searchTerm)

SpecExplorer == Init /\ [][NextExplorer]_vars

\* the number of transactions indexed under the network
EntriesOf(networkId) ==
  Cardinality({i \in 1..Len(explorer.transactionIndex) :
                 explorer.transactionIndex[i].data.networkId = networkId})

\* C23: while every indexing call has succeeded, each indexed network's
\* transactionCount is the number of transactions indexed under it
C23_CountMatchesIndex ==
  explorer.failures = 0 =>
    \A i \in 1..Len(explorer.networkIndex) :
      explorer.networkIndex[i].data.transactionCount
        = EntriesOf(explorer.networkIndex[i].id)

\* C24: a failed indexTransaction leaves the transaction index, the network
\* index and transactionsIndexed as they were
C24_FailedIndexingLeavesNoTrace ==
  [][(/\ explorer'.calls = explorer.calls + 1
      /\ explorer'.last.kind = "indexTransaction"
      /\ ~explorer'.last.success)
       => /\ explorer'.transactionIndex = explorer.transactionIndex
          /\ explorer'.networkIndex = explorer.networkIndex
          /\ explorer'.explorerMetrics.transactionsIndexed
               = explorer.explorerMetrics.transactionsIndexed]_vars

\* C28: for a term that is not empty, every result of a search has a
\* relevanceScore of at least 1
C28_MatchScoresAboveZero ==
  (explorer.last.kind = "search" /\ explorer.last.searchTerm # <<>>)
    => \A i \in 1..Len(explorer.last.results) :
         explorer.last.results[i].relevanceScore >= 1

----------------------------------------------------------------------------
(* IslamicComplianceFramework: scores and metrics *)

====
